---- MODULE Spec2Model ----
(***************************************************************************)
(* A model of wordle_solver.py: the constraint filter get_poss_words, the  *)
(* ranker rank_words / calc_guess_entropy with its worker pool, and the    *)
(* six-turn loop of __main__.                                              *)
(*                                                                         *)
(* Strings are sequences of one-character strings; get_unicode turns them  *)
(* into sequences of code points, as the source does with ord().           *)
(***************************************************************************)
EXTENDS Integers, Sequences, FiniteSets, TLC

\* ------------------------------------------------------------------ bounds
\* Number of letters of the alphabet the dictionary and the guesses use.
NumLetters == 2
\* Largest number of words in a dictionary.
MaxWords == 3

\* ------------------------------------------------------- program constants
G_UNICODE == 103
Y_UNICODE == 121
B_UNICODE == 98

\* Length of a word and of a colour pattern (repeat=5 in POSSIBLE_COLORS).
WORD_LEN == 5

\* range(6): the turns of a session.
NUM_TURNS == 6
\* The turn after which "No more turns!" is printed (turn == 5).
LAST_TURN == 5
\* show_words(sorted_words, pred_remain_words, 10)
N_SHOWN == 10

\* ord() on the characters the model types.
ord ==
    ("a" :> 97) @@ ("b" :> 98) @@ ("c" :> 99) @@ ("d" :> 100) @@ ("e" :> 101) @@
    ("g" :> 103) @@ ("x" :> 120) @@ ("y" :> 121) @@ ("1" :> 49)

\* chr() on the code points of ord.
chr(val) == CHOOSE c \in DOMAIN ord : ord[c] = val

\* get_unicode: [ord(char) for char in word]
get_unicode(word) == [i \in 1..Len(word) |-> ord[word[i]]]

\* get_str: "".join(chr(val) for val in unicode_array)
get_str(unicode_array) == [i \in 1..Len(unicode_array) |-> chr(unicode_array[i])]

\* itertools.product([G, Y, B], repeat=5): row k (from 1), the first
\* position varying slowest.
ColorOrder == <<G_UNICODE, Y_UNICODE, B_UNICODE>>

RECURSIVE Pow(_, _)
Pow(b, e) == IF e = 0 THEN 1 ELSE b * Pow(b, e - 1)

POSSIBLE_COLORS ==
    [k \in 1..Pow(3, WORD_LEN) |->
        [i \in 1..WORD_LEN |-> ColorOrder[(((k - 1) \div Pow(3, WORD_LEN - i)) % 3) + 1]]]

\* ------------------------------------------------------- constraint filter
\* The boolean masks of get_poss_words index arrays of another length:
\* numpy raises IndexError (words has WORD_LEN columns).
get_poss_words_raises(guess, colors) ==
    \/ Len(colors) # WORD_LEN
    \/ Len(guess) # Len(colors)

\* get_poss_words with the black letters counted over every position of the
\* word, the green ones included.
get_poss_words_black_everywhere(guess, colors, words) ==
    LET green_inds == {i \in DOMAIN colors : colors[i] = G_UNICODE}
        not_green_inds == (DOMAIN colors) \ green_inds
        yellow_inds == {i \in DOMAIN colors : colors[i] = Y_UNICODE}
        black_inds == {i \in DOMAIN colors : colors[i] = B_UNICODE}
        ok(w) ==
            /\ \A i \in green_inds : w[i] = guess[i]
            /\ \A i \in not_green_inds : w[i] # guess[i]
            /\ \A i \in yellow_inds :
                  Cardinality({j \in not_green_inds : w[j] = guess[i]})
                      >= Cardinality({j \in yellow_inds : guess[j] = guess[i]})
            /\ \A i \in black_inds :
                  Cardinality({j \in DOMAIN colors : w[j] = guess[i]})
                      <= Cardinality({j \in yellow_inds : guess[j] = guess[i]})
    IN  SelectSeq(words, ok)

\* get_poss_words with a black letter taken to be in no other place of the word,
\* whatever yellow marks the letter has.
get_poss_words_black_means_none(guess, colors, words) ==
    LET green_inds == {i \in DOMAIN colors : colors[i] = G_UNICODE}
        not_green_inds == (DOMAIN colors) \ green_inds
        yellow_inds == {i \in DOMAIN colors : colors[i] = Y_UNICODE}
        black_inds == {i \in DOMAIN colors : colors[i] = B_UNICODE}
        ok(w) ==
            /\ \A i \in green_inds : w[i] = guess[i]
            /\ \A i \in not_green_inds : w[i] # guess[i]
            /\ \A i \in yellow_inds :
                  Cardinality({j \in not_green_inds : w[j] = guess[i]})
                      >= Cardinality({j \in yellow_inds : guess[j] = guess[i]})
            /\ \A i \in black_inds :
                  Cardinality({j \in not_green_inds : w[j] = guess[i]}) = 0
    IN  SelectSeq(words, ok)

get_poss_words(guess, colors, words) ==
    LET green_inds == {i \in DOMAIN colors : colors[i] = G_UNICODE}
        not_green_inds == (DOMAIN colors) \ green_inds
        green_word_mask(w) == \A i \in green_inds : w[i] = guess[i]
        words1 == SelectSeq(words, green_word_mask)
        letter_not_at_index_mask(w) == \A i \in not_green_inds : w[i] # guess[i]
        words2 == SelectSeq(words1, letter_not_at_index_mask)
        yellow_inds == {i \in DOMAIN colors : colors[i] = Y_UNICODE}
        unique_yellow_letters == {guess[i] : i \in yellow_inds}
        yellow_letter_count_limits ==
            [l \in unique_yellow_letters |-> Cardinality({i \in yellow_inds : guess[i] = l})]
        yellow_ok(w) ==
            \A l \in unique_yellow_letters :
                Cardinality({i \in not_green_inds : w[i] = l}) >= yellow_letter_count_limits[l]
        words3 == SelectSeq(words2, yellow_ok)
        black_inds == {i \in DOMAIN colors : colors[i] = B_UNICODE}
        unique_black_letters == {guess[i] : i \in black_inds}
        yellow_black_letter_count ==
            [l \in unique_black_letters |-> Cardinality({i \in yellow_inds : guess[i] = l})]
        black_ok(w) ==
            \A l \in unique_black_letters :
                Cardinality({i \in not_green_inds : w[i] = l}) <= yellow_black_letter_count[l]
    IN  SelectSeq(words3, black_ok)

\* ------------------------------------------------------------------ ranker
\* A float64 that is not negative is <<m, e>>: m the 53 bits of its
\* significand, first bit 1, most significant first, and e the exponent of
\* the last bit, so that its value is m * 2^e; zero is FloatZero. Every
\* operation rounds its exact result to nearest, ties to even, as IEEE 754
\* does. (The scores are far from the subnormal and the overflow range.)
\* The tests on Len in the arithmetic operators below only make the value at
\* hand be computed before the next step is taken; they are always true.
FloatZero == <<<<>>, 0>>

\* What a division by zero gives instead of a float: the exception raised.
ZeroDivisionError == <<"ZeroDivisionError">>

Zeros(k) == [i \in 1..k |-> 0]

\* The operators below work on LIMB bits at a time.
LIMB == 9
LIMB_BASE == 512

\* The bits of the integer n >= 1, without leading zeros.
RECURSIVE IntBits(_)
IntBits(n) == IF n = 0 THEN <<>> ELSE Append(IntBits(n \div 2), n % 2)

\* The integer v < LIMB_BASE as exactly LIMB bits.
LimbBits(v) ==
    << (v \div 256) % 2, (v \div 128) % 2, (v \div 64) % 2, (v \div 32) % 2,
       (v \div 16) % 2, (v \div 8) % 2, (v \div 4) % 2, (v \div 2) % 2, v % 2 >>

\* The integer that the LIMB bits of bits from position lo on spell.
LimbVal(bits, lo) ==
    bits[lo] * 256 + bits[lo + 1] * 128 + bits[lo + 2] * 64 + bits[lo + 3] * 32
    + bits[lo + 4] * 16 + bits[lo + 5] * 8 + bits[lo + 6] * 4 + bits[lo + 7] * 2
    + bits[lo + 8]

\* bits without its leading zeros.
Strip(bits) ==
    IF \A i \in 1..Len(bits) : bits[i] = 0 THEN <<>>
    ELSE LET first == CHOOSE i \in 1..Len(bits) :
                          bits[i] = 1 /\ \A j \in 1..(i - 1) : bits[j] = 0
         IN SubSeq(bits, first, Len(bits))

\* bits with leading zeros up to the next multiple of LIMB, at least len.
PadLimbs(bits, len) ==
    LET limbs == (len + LIMB - 1) \div LIMB
    IN Zeros(limbs * LIMB - Len(bits)) \o bits

\* bits + 1.
BitsInc(bits) ==
    IF \A i \in 1..Len(bits) : bits[i] = 1 THEN <<1>> \o Zeros(Len(bits))
    ELSE LET last == CHOOSE i \in 1..Len(bits) :
                         bits[i] = 0 /\ \A j \in (i + 1)..Len(bits) : bits[j] = 1
         IN SubSeq(bits, 1, last - 1) \o <<1>> \o Zeros(Len(bits) - last)

\* bits * n for an integer n >= 1, limb by limb from the last one.
RECURSIVE BitsMulFrom(_, _, _, _, _)
BitsMulFrom(bits, n, limb, carry, acc) ==
    IF limb = 0 THEN IntBits(carry) \o acc
    ELSE LET v == LimbVal(bits, (limb - 1) * LIMB + 1) * n + carry
             out == LimbBits(v % LIMB_BASE) \o acc
         IN IF Len(out) > 0 THEN BitsMulFrom(bits, n, limb - 1, v \div LIMB_BASE, out)
            ELSE <<>>
BitsMul(bits, n) ==
    LET padded == PadLimbs(bits, Len(bits))
    IN Strip(BitsMulFrom(padded, n, Len(padded) \div LIMB, 0, <<>>))

\* a + b, limb by limb from the last one.
RECURSIVE BitsAddFrom(_, _, _, _, _)
BitsAddFrom(a, b, limb, carry, acc) ==
    IF limb = 0 THEN IntBits(carry) \o acc
    ELSE LET lo == (limb - 1) * LIMB + 1
             v == LimbVal(a, lo) + LimbVal(b, lo) + carry
             out == LimbBits(v % LIMB_BASE) \o acc
         IN IF Len(out) > 0 THEN BitsAddFrom(a, b, limb - 1, v \div LIMB_BASE, out)
            ELSE <<>>
BitsAdd(a, b) ==
    LET len == IF Len(a) > Len(b) THEN Len(a) ELSE Len(b)
        pa == PadLimbs(a, len)
        pb == PadLimbs(b, len)
    IN Strip(BitsAddFrom(pa, pb, Len(pa) \div LIMB, 0, <<>>))

\* The float nearest to bits * 2^e (bits without leading zeros, not empty),
\* ties to even; sticky says that the exact value is a little more than that.
RoundFloat(bits, e, sticky) ==
    LET L == Len(bits)
    IN IF L <= 53 THEN <<bits \o Zeros(53 - L), e - (53 - L)>>
       ELSE LET keep == SubSeq(bits, 1, 53)
                rest == sticky \/ \E i \in 55..L : bits[i] = 1
                up == bits[54] = 1 /\ (rest \/ keep[53] = 1)
                m == IF up THEN BitsInc(keep) ELSE keep
            IN IF Len(m) = 54 THEN <<SubSeq(m, 1, 53), e + (L - 53) + 1>>
               ELSE <<m, e + (L - 53)>>

\* Long division of r / w (r < w), LIMB bits a step, after the integer part
\* acc: the quotient bits without leading zeros, the exponent of the last of
\* them and whether a remainder is left, once 54 bits or more are there.
RECURSIVE DivBits(_, _, _, _)
DivBits(r, w, acc, e) ==
    IF r = 0 \/ Len(acc) >= 54 THEN <<acc, e, r # 0>>
    ELSE LET out == Strip(acc \o LimbBits((r * LIMB_BASE) \div w))
         IN IF Len(out) >= 0 THEN DivBits((r * LIMB_BASE) % w, w, out, e - LIMB)
            ELSE <<>>

\* n / w for integers n >= 0 and w >= 0; Python raises when w is 0.
float_div(n, w) ==
    IF w = 0 THEN ZeroDivisionError
    ELSE IF n = 0 THEN FloatZero
    ELSE LET d == DivBits(n % w, w, IntBits(n \div w), 0)
         IN IF Len(d) = 3 THEN RoundFloat(d[1], d[2], d[3]) ELSE FloatZero

\* x * n for a float x and an integer n >= 0.
float_mul(x, n) ==
    IF x = FloatZero \/ n = 0 THEN FloatZero
    ELSE LET product == BitsMul(x[1], n)
         IN IF Len(product) > 0 THEN RoundFloat(product, x[2], FALSE) ELSE FloatZero

\* x + y for floats x and y.
float_add(x, y) ==
    IF x = FloatZero THEN y
    ELSE IF y = FloatZero THEN x
    ELSE LET e == IF x[2] < y[2] THEN x[2] ELSE y[2]
             sum == BitsAdd(x[1] \o Zeros(x[2] - e), y[1] \o Zeros(y[2] - e))
         IN IF Len(sum) > 0 THEN RoundFloat(sum, e, FALSE) ELSE FloatZero

\* x < y and x == y on floats, as argsort compares the scores.
ScoreLess(x, y) ==
    IF y = FloatZero THEN FALSE
    ELSE IF x = FloatZero THEN TRUE
    ELSE \/ x[2] < y[2]
         \/ /\ x[2] = y[2]
            /\ \E i \in 1..53 :
                  /\ \A j \in 1..(i - 1) : x[1][j] = y[1][j]
                  /\ x[1][i] < y[1][i]
ScoreEq(x, y) == x = y

\* The loop of calc_guess_entropy over rows lo..hi of POSSIBLE_COLORS, taken in
\* order (the lower half of the range, then the upper half):
\* pred_remain_words += (n_poss_words / words.shape[0]) * n_poss_words
\* The result is the sum, or ZeroDivisionError as soon as the division raises
\* (words is empty), which ends the loop.
RECURSIVE entropy_loop(_, _, _, _, _)
entropy_loop(guess, words, lo, hi, pred_remain_words) ==
    IF lo = hi
    THEN LET n_poss_words == Len(get_poss_words(guess, POSSIBLE_COLORS[lo], words))
             quotient == float_div(n_poss_words, Len(words))
         IN IF quotient = ZeroDivisionError THEN ZeroDivisionError
            ELSE float_add(pred_remain_words, float_mul(quotient, n_poss_words))
    ELSE LET mid == (lo + hi) \div 2
             sum == entropy_loop(guess, words, lo, mid, pred_remain_words)
         IN IF sum = ZeroDivisionError THEN ZeroDivisionError
            ELSE entropy_loop(guess, words, mid + 1, hi, sum)

\* pred_remain_words = 0, then the loop over all of POSSIBLE_COLORS; the
\* score, or ZeroDivisionError when the loop raises.
calc_guess_entropy(guess, words) ==
    entropy_loop(guess, words, 1, Len(POSSIBLE_COLORS), FloatZero)

\* np.argsort on the scores: the indices in non-decreasing score order, equal
\* scores in index order (numpy sorts arrays this short by insertion).
RECURSIVE ArgsortFrom(_, _, _)
ArgsortFrom(a, i, acc) ==
    IF i > Len(a) THEN acc
    ELSE LET p == Cardinality({j \in DOMAIN acc : ~ScoreLess(a[i], a[acc[j]])})
         IN ArgsortFrom(a, i + 1,
                SubSeq(acc, 1, p) \o <<i>> \o SubSeq(acc, p + 1, Len(acc)))

argsort(a) == ArgsortFrom(a, 1, <<>>)

\* sort_ranking with the scores sorted and the words left in their order.
sort_ranking_scores_only(words, pred_remain_words) ==
    LET sorted_inds == argsort(pred_remain_words)
    IN <<words, [i \in DOMAIN sorted_inds |-> pred_remain_words[sorted_inds[i]]]>>

\* Lines 67-68: (words[sorted_inds], pred_remain_words[sorted_inds]).
sort_ranking(words, pred_remain_words) ==
    LET sorted_inds == argsort(pred_remain_words)
    IN <<[i \in DOMAIN sorted_inds |-> words[sorted_inds[i]]],
         [i \in DOMAIN sorted_inds |-> pred_remain_words[sorted_inds[i]]]>>

\* rank_words when every task succeeds.
rank_words(words) ==
    sort_ranking(words, [i \in DOMAIN words |-> calc_guess_entropy(words[i], words)])

\* ------------------------------------------------------------------ inputs
\* The letters the model types, in alphabetical order.
Alphabet == <<"a", "b", "c", "d", "e">>
LetterChars == {Alphabet[i] : i \in 1..NumLetters}

\* Every five-letter string over LetterChars.
AllWordStrs == [1..WORD_LEN -> LetterChars]

\* The same words, vectorized, in lexical order.
AllWordsList ==
    [k \in 1..Pow(NumLetters, WORD_LEN) |->
        [i \in 1..WORD_LEN |->
            ord[Alphabet[(((k - 1) \div Pow(NumLetters, WORD_LEN - i)) % NumLetters) + 1]]]]

Reverse(s) == [i \in 1..Len(s) |-> s[Len(s) + 1 - i]]
OddEntries(s) == [i \in 1..((Len(s) + 1) \div 2) |-> s[2 * i - 1]]

Range(s) == {s[i] : i \in DOMAIN s}

\* Words a dictionary file is made of.
WordPool ==
    { get_unicode(w) : w \in { <<"a", "a", "b", "b", "b">>,
                               <<"b", "b", "a", "b", "b">>,
                               <<"a", "b", "a", "b", "a">>,
                               <<"b", "a", "b", "a", "b">>,
                               <<"a", "b", "b", "b", "a">> } }

\* The dictionaries: every list of 1..MaxWords different words of WordPool.
Dictionaries ==
    { d \in UNION { [1..n -> WordPool] : n \in 1..MaxWords } :
        \A i, j \in DOMAIN d : i # j => d[i] # d[j] }

\* ------------------------------------------------------ the game's own rule
\* The colours the game gives guess g against answer w: equal positions are
\* green; then, left to right, a letter is yellow while w still has an
\* unmatched occurrence of it that no earlier yellow has used, else black.
RECURSIVE GameScan(_, _, _, _)
GameScan(g, w, i, acc) ==
    IF i > Len(g) THEN acc
    ELSE LET avail == Cardinality({j \in DOMAIN w : w[j] = g[i] /\ g[j] # w[j]})
             used == Cardinality({j \in 1..(i - 1) : acc[j] = Y_UNICODE /\ g[j] = g[i]})
             c == IF g[i] = w[i] THEN G_UNICODE
                  ELSE IF used < avail THEN Y_UNICODE ELSE B_UNICODE
         IN GameScan(g, w, i + 1, Append(acc, c))

GameColors(g, w) == GameScan(g, w, 1, <<>>)

\* ------------------------------------------------- the filter, on its own
VARIABLES f_guess, f_colors, f_words, f_out, f_pc
fvars == <<f_guess, f_colors, f_words, f_out, f_pc>>

\* rank_words and its workers: r_task[i] is the state of the task apply_async
\* made for words[i], r_result[i] what it computed, r_collected the results
\* i.get() has returned so far, r_ret the value rank_words returns.
VARIABLES r_words, r_task, r_result, r_collected, r_ret, r_pc
rvars == <<r_words, r_task, r_result, r_collected, r_ret, r_pc>>

\* __main__: the program's variables pool, words, turn, sorted_words,
\* pred_remain_words, guess and colors; pc is the statement to run next,
\* shown what show_words printed, printed the message that ended the loop,
\* error the exception that ended the process. answer is the game's hidden
\* word, truthful whether every feedback typed so far was the game's colouring
\* of the guess against answer; n_pools, n_observed and n_ranked count the
\* pools created, the observations read and the calls of rank_words.
VARIABLES pc, pool, words, turn, sorted_words, pred_remain_words, shown,
          guess, colors, printed, error,
          answer, truthful, n_pools, n_observed, n_ranked
mvars == <<pc, pool, words, turn, sorted_words, pred_remain_words, shown,
           guess, colors, printed, error,
           answer, truthful, n_pools, n_observed, n_ranked>>

vars == <<fvars, rvars, mvars>>

NoResult == <<>>

\* The filter is not being exercised on its own.
FIdle ==
    /\ f_guess = <<>>
    /\ f_colors = <<>>
    /\ f_words = <<>>
    /\ f_out = <<>>
    /\ f_pc = "idle"

\* No ranking pass is being exercised on its own.
RIdle ==
    /\ r_words = <<>>
    /\ r_task = <<>>
    /\ r_result = <<>>
    /\ r_collected = <<>>
    /\ r_ret = NoResult
    /\ r_pc = "idle"

\* No session is running.
MIdle ==
    /\ pc = "idle"
    /\ pool = "none"
    /\ words = <<>>
    /\ turn = 0
    /\ sorted_words = <<>>
    /\ pred_remain_words = <<>>
    /\ shown = <<>>
    /\ guess = <<>>
    /\ colors = <<>>
    /\ printed = <<"", <<>>>>
    /\ error = "none"
    /\ answer = <<>>
    /\ truthful = TRUE
    /\ n_pools = 0
    /\ n_observed = 0
    /\ n_ranked = 0

FInit ==
    /\ RIdle
    /\ MIdle
    /\ f_guess \in {get_unicode(s) : s \in AllWordStrs}
    /\ f_colors \in Range(POSSIBLE_COLORS)
    /\ f_words \in {AllWordsList, Reverse(AllWordsList), OddEntries(AllWordsList)}
    /\ f_out = <<>>
    /\ f_pc = "call"

\* One call of get_poss_words on well-formed arguments.
FCall ==
    /\ f_pc = "call"
    /\ f_out' = get_poss_words(f_guess, f_colors, f_words)
    /\ f_pc' = "ret"
    /\ UNCHANGED <<f_guess, f_colors, f_words, rvars, mvars>>

FNext == FCall
SpecFilter == FInit /\ [][FNext]_vars

\* ---- claims on the filter
CountIn(w, inds, l) == Cardinality({i \in inds : w[i] = l})
IndsOf(f, c) == {i \in DOMAIN f : f[i] = c}
NotExact(f) == (DOMAIN f) \ IndsOf(f, G_UNICODE)

Rule1(g, f, w) == \A i \in IndsOf(f, G_UNICODE) : w[i] = g[i]
Rule2(g, f, w) == \A i \in NotExact(f) : w[i] # g[i]
Rule3(g, f, w) ==
    \A i \in IndsOf(f, Y_UNICODE) :
        CountIn(w, NotExact(f), g[i]) >= CountIn(g, IndsOf(f, Y_UNICODE), g[i])
Rule4(g, f, w) ==
    \A i \in IndsOf(f, B_UNICODE) :
        CountIn(w, NotExact(f), g[i]) <= CountIn(g, IndsOf(f, Y_UNICODE), g[i])

\* C1: get_poss_words(g, f, C) is exactly the words of C against which the
\* game colours g as f.
C1_FilterIsGameRule ==
    f_pc = "ret" =>
        \A w \in Range(f_words) :
            (w \in Range(f_out)) <=> (GameColors(f_guess, w) = f_colors)

\* C3: get_poss_words returns exactly the words for which rules 1-4 all
\* hold, in the order they had.
C3_FilterIsFourRules ==
    f_pc = "ret" =>
        LET keep(w) == /\ Rule1(f_guess, f_colors, w)
                       /\ Rule2(f_guess, f_colors, w)
                       /\ Rule3(f_guess, f_colors, w)
                       /\ Rule4(f_guess, f_colors, w)
        IN f_out = SelectSeq(f_words, keep)

\* One letter of the guess is marked exact, present and absent at once, and
\* the filter has kept some words and dropped others.
C3_Witness ==
    /\ f_pc = "ret"
    /\ \E i \in IndsOf(f_colors, G_UNICODE), j \in IndsOf(f_colors, Y_UNICODE),
          k \in IndsOf(f_colors, B_UNICODE) :
          f_guess[i] = f_guess[j] /\ f_guess[j] = f_guess[k]
    /\ Len(f_out) > 0
    /\ Len(f_out) < Len(f_words)

\* ----------------------------------------------- rank_words and its workers
RInit ==
    /\ FIdle
    /\ MIdle
    /\ r_words \in Dictionaries
    /\ r_task = [i \in DOMAIN r_words |-> "unsubmitted"]
    /\ r_result = [i \in DOMAIN r_words |-> NoResult]
    /\ r_collected = <<>>
    /\ r_ret = NoResult
    /\ r_pc = "submit"

\* pool.apply_async(calc_guess_entropy, args=(guess, words)) for the next guess.
RSubmit ==
    /\ r_pc = "submit"
    /\ LET i == CHOOSE j \in DOMAIN r_words :
                    /\ r_task[j] = "unsubmitted"
                    /\ \A k \in 1..(j - 1) : r_task[k] # "unsubmitted"
       IN /\ r_task' = [r_task EXCEPT ![i] = "pending"]
          /\ r_pc' = IF i = Len(r_words) THEN "collect" ELSE "submit"
    /\ UNCHANGED <<r_words, r_result, r_collected, r_ret, fvars, mvars>>

\* A worker finishes a task, in any order: with its score, or failed when
\* calc_guess_entropy raises.
RWorkerDone(i) ==
    /\ r_task[i] = "pending"
    /\ LET score == calc_guess_entropy(r_words[i], r_words)
       IN IF score = ZeroDivisionError
          THEN /\ r_task' = [r_task EXCEPT ![i] = "failed"]
               /\ r_result' = r_result
          ELSE /\ r_task' = [r_task EXCEPT ![i] = "done"]
               /\ r_result' = [r_result EXCEPT ![i] = score]
    /\ UNCHANGED <<r_words, r_collected, r_ret, r_pc, fvars, mvars>>

\* A worker's task raises.
RWorkerFail(i) ==
    /\ r_task[i] = "pending"
    /\ r_task' = [r_task EXCEPT ![i] = "failed"]
    /\ UNCHANGED <<r_words, r_result, r_collected, r_ret, r_pc, fvars, mvars>>

\* RGet with a failed task's score replaced by 0 and the pass carried on.
RGet_substitute ==
    /\ r_pc = "collect"
    /\ Len(r_collected) < Len(r_words)
    /\ LET i == Len(r_collected) + 1
       IN /\ r_task[i] \in {"done", "failed"}
          /\ r_collected' =
                Append(r_collected, IF r_task[i] = "done" THEN r_result[i] ELSE FloatZero)
          /\ r_pc' = "collect"
    /\ UNCHANGED <<r_words, r_task, r_result, r_ret, fvars, mvars>>

\* i.get() for the next task: blocks while it is pending, returns its result,
\* or re-raises what the task raised.
RGet ==
    /\ r_pc = "collect"
    /\ Len(r_collected) < Len(r_words)
    /\ LET i == Len(r_collected) + 1
       IN /\ r_task[i] \in {"done", "failed"}
          /\ IF r_task[i] = "done"
             THEN /\ r_collected' = Append(r_collected, r_result[i])
                  /\ r_pc' = "collect"
             ELSE /\ r_collected' = r_collected
                  /\ r_pc' = "raised"
    /\ UNCHANGED <<r_words, r_task, r_result, r_ret, fvars, mvars>>

\* Every result is in: argsort and return.
RSort ==
    /\ r_pc = "collect"
    /\ Len(r_collected) = Len(r_words)
    /\ r_ret' = sort_ranking(r_words, r_collected)
    /\ r_pc' = "returned"
    /\ UNCHANGED <<r_words, r_task, r_result, r_collected, fvars, mvars>>

RNext ==
    \/ RSubmit
    \/ \E i \in DOMAIN r_words : RWorkerDone(i)
    \/ \E i \in DOMAIN r_words : RWorkerFail(i)
    \/ RGet
    \/ RSort

SpecRank == RInit /\ [][RNext]_vars

\* ---- claims on the ranker
AllPatterns == Range(POSSIBLE_COLORS)

\* The patterns for which the filter keeps at least one word of C.
LivePatterns(g, C) == {f \in AllPatterns : Len(get_poss_words(g, f, C)) > 0}

\* Number of words of C the filter keeps for guess g, summed over the patterns F.
RECURSIVE KeptOver(_, _, _)
KeptOver(g, C, F) ==
    IF F = {} THEN 0
    ELSE LET f == CHOOSE x \in F : TRUE
         IN Len(get_poss_words(g, f, C)) + KeptOver(g, C, F \ {f})

KeptTotal(g, C) == KeptOver(g, C, LivePatterns(g, C))

\* The same with each size squared.
RECURSIVE SquaresOver(_, _, _)
SquaresOver(g, C, F) ==
    IF F = {} THEN 0
    ELSE LET f == CHOOSE x \in F : TRUE
             n == Len(get_poss_words(g, f, C))
         IN n * n + SquaresOver(g, C, F \ {f})

\* The sum of n_f * n_f over the patterns, for guess g and candidates C; the
\* score the claim gives g is this sum over |C|.
OwnSquares(g, C) == SquaresOver(g, C, LivePatterns(g, C))

\* The float x is the fraction s / w up to float rounding: it lies between
\* (s - 1/65536) / w and (s + 1/65536) / w.
ScoreNear(x, s, w) ==
    /\ ~ScoreLess(x, float_div(s * 65536 - 1, w * 65536))
    /\ ~ScoreLess(float_div(s * 65536 + 1, w * 65536), x)

\* C2: for every guess a worker has scored, the sizes of the filtered sets
\* over the 243 patterns add up to the size of the candidate set.
C2_PatternSizesSumToAll ==
    \A i \in DOMAIN r_words :
        r_task[i] = "done" => KeptTotal(r_words[i], r_words) = Len(r_words)

\* a comes before b, or is b, in the lexical order of words.
LexLeq(a, b) ==
    \/ a = b
    \/ \E i \in DOMAIN a :
          /\ \A j \in 1..(i - 1) : a[j] = b[j]
          /\ a[i] < b[i]

\* C5: the ranking is returned only once every task is done; it has one entry
\* per candidate word, each with its own score (the float64 sum the code
\* computes for it, which is the sum of n_f * n_f / |C| up to float rounding),
\* in non-decreasing order of the float scores and of the exact sums alike,
\* and it is the ranking the word list determines, whatever order the tasks
\* finished in.
C5_RankingIndependentOfCompletion ==
    r_pc = "returned" =>
        /\ \A i \in DOMAIN r_words : r_task[i] = "done"
        /\ Len(r_ret[1]) = Len(r_words)
        /\ Len(r_ret[2]) = Len(r_words)
        /\ Range(r_ret[1]) = Range(r_words)
        /\ \A i \in DOMAIN r_ret[1] :
              /\ r_ret[2][i] = calc_guess_entropy(r_ret[1][i], r_words)
              /\ ScoreNear(r_ret[2][i], OwnSquares(r_ret[1][i], r_words), Len(r_words))
        /\ \A i, j \in DOMAIN r_ret[2] :
              i < j => /\ ~ScoreLess(r_ret[2][j], r_ret[2][i])
                       /\ OwnSquares(r_ret[1][i], r_words) <= OwnSquares(r_ret[1][j], r_words)
        /\ r_ret = rank_words(r_words)

\* A ranking of three words with different scores has been returned after the
\* last task submitted finished first.
C5_Witness ==
    /\ r_pc = "returned"
    /\ Len(r_words) >= 3
    /\ \E i, j \in DOMAIN r_ret[2] : ScoreLess(r_ret[2][i], r_ret[2][j])
    /\ r_ret[1] # r_words

\* C6: words with equal scores are ranked in lexical order.
C6_TiesInLexicalOrder ==
    r_pc = "returned" =>
        \A i, j \in DOMAIN r_ret[1] :
            (i < j /\ ScoreEq(r_ret[2][i], r_ret[2][j])) => LexLeq(r_ret[1][i], r_ret[1][j])

\* C7: once a task has failed no ranking is returned: the results collected
\* are those of finished tasks only, and a failed task ends the pass raised.
C7_FailedTaskNoRanking ==
    /\ \A i \in 1..Len(r_collected) : r_task[i] = "done" /\ r_collected[i] = r_result[i]
    /\ (\E i \in DOMAIN r_words : r_task[i] = "failed") =>
          (r_pc # "returned" /\ r_ret = NoResult)
    /\ r_pc = "raised" =>
          (r_ret = NoResult /\ r_task[Len(r_collected) + 1] = "failed")

\* A pass has raised after collecting some results, because a later task failed.
C7_Witness ==
    /\ r_pc = "raised"
    /\ Len(r_collected) >= 1
    /\ \E i \in DOMAIN r_words : r_task[i] = "failed"

\* ------------------------------------------------------------ the session
\* data/first_word_stats.csv: the ranking of the dictionary, computed ahead.
first_word_stats(dictionary) == rank_words(dictionary)

\* show_words: the lines printed, one per word among the first n_words.
Min(a, b) == IF a < b THEN a ELSE b
show_words(ranked, predicted_remaining_words, n_words) ==
    [i \in 1..Min(Len(ranked), n_words) |->
        <<i - 1, get_str(ranked[i]), predicted_remaining_words[i]>>]

\* The dictionary files of a session list their words in lexical order.
SortedDictionaries ==
    { d \in Dictionaries :
        \A i, j \in DOMAIN d : i < j => (\E k \in DOMAIN d[i] :
            /\ \A m \in 1..(k - 1) : d[i][m] = d[j][m]
            /\ d[i][k] < d[j][k]) }

\* What the user may type as a guess: any word over the letters of the
\* dictionary words, a word of a letter no dictionary word has, a word one
\* letter short, a word with a digit.
PoolLetters == UNION { Range(get_str(w)) : w \in WordPool }
OutsideGuess == [i \in 1..WORD_LEN |-> Alphabet[NumLetters + 1]]
ShortGuess == <<"a", "b", "a", "b">>
DigitGuess == <<"1", "a", "b", "b", "b">>
GuessStrs == [1..WORD_LEN -> PoolLetters] \cup {OutsideGuess, ShortGuess, DigitGuess}

\* What the user may type as colours: the game's colouring of the guess
\* against the answer, or one of a few patterns, one with a symbol that is
\* no colour and one too short.
TypedColors ==
    { <<"g", "g", "g", "g", "g">>,
      <<"b", "b", "b", "b", "b">>,
      <<"b", "y", "y", "g", "g">>,
      <<"g", "x", "b", "b", "b">>,
      <<"g", "y", "b">> }
ColorStrs(g) ==
    TypedColors \cup
        (IF Len(g) = WORD_LEN THEN {get_str(GameColors(get_unicode(g), answer))} ELSE {})

MInit ==
    /\ FIdle
    /\ RIdle
    /\ pc = "start"
    /\ pool = "none"
    /\ words = <<>>
    /\ turn = 0
    /\ sorted_words = <<>>
    /\ pred_remain_words = <<>>
    /\ shown = <<>>
    /\ guess = <<>>
    /\ colors = <<>>
    /\ printed = <<"", <<>>>>
    /\ error = "none"
    /\ answer = <<>>
    /\ truthful = TRUE
    /\ n_pools = 0
    /\ n_observed = 0
    /\ n_ranked = 0

\* pool = mp.Pool()
CreatePool ==
    /\ pc = "start"
    /\ pool' = "open"
    /\ n_pools' = n_pools + 1
    /\ pc' = "read"
    /\ UNCHANGED <<words, turn, sorted_words, pred_remain_words, shown, guess, colors,
                   printed, error, answer, truthful, n_observed, n_ranked, fvars, rvars>>

\* words = get_all_valid_words(); the game holds one of them as its answer.
GetAllValidWords ==
    /\ pc = "read"
    /\ words' \in SortedDictionaries
    /\ answer' \in Range(words')
    /\ pc' = "rank"
    /\ UNCHANGED <<pool, turn, sorted_words, pred_remain_words, shown, guess, colors,
                   printed, error, truthful, n_pools, n_observed, n_ranked, fvars, rvars>>

\* turn == 0: the ranking read from first_word_stats.csv.
UseFirstWordStats ==
    /\ pc = "rank"
    /\ turn = 0
    /\ sorted_words' = first_word_stats(words)[1]
    /\ pred_remain_words' = first_word_stats(words)[2]
    /\ pc' = "show"
    /\ UNCHANGED <<pool, words, turn, shown, guess, colors, printed, error,
                   answer, truthful, n_pools, n_observed, n_ranked, fvars, rvars>>

\* sorted_words, pred_remain_words = rank_words(words, pool)
RankWords ==
    /\ pc = "rank"
    /\ turn # 0
    /\ sorted_words' = rank_words(words)[1]
    /\ pred_remain_words' = rank_words(words)[2]
    /\ n_ranked' = n_ranked + 1
    /\ pc' = "show"
    /\ UNCHANGED <<pool, words, turn, shown, guess, colors, printed, error,
                   answer, truthful, n_pools, n_observed, fvars, rvars>>

\* rank_words re-raises what a worker task raised.
RankWordsRaises ==
    /\ pc = "rank"
    /\ turn # 0
    /\ n_ranked' = n_ranked + 1
    /\ error' = "WorkerError"
    /\ pc' = "error"
    /\ UNCHANGED <<pool, words, turn, sorted_words, pred_remain_words, shown, guess,
                   colors, printed, answer, truthful, n_pools, n_observed, fvars, rvars>>

\* show_words(sorted_words, pred_remain_words, 10)
ShowWords ==
    /\ pc = "show"
    /\ shown' = show_words(sorted_words, pred_remain_words, N_SHOWN)
    /\ pc' = "input"
    /\ UNCHANGED <<pool, words, turn, sorted_words, pred_remain_words, guess, colors,
                   printed, error, answer, truthful, n_pools, n_observed, n_ranked,
                   fvars, rvars>>

\* guess, colors = get_guess_colors()
GetGuessColors ==
    /\ pc = "input"
    /\ \E g \in GuessStrs :
          \E c \in ColorStrs(g) :
              /\ guess' = get_unicode(g)
              /\ colors' = get_unicode(c)
    /\ n_observed' = n_observed + 1
    /\ pc' = "filter"
    /\ UNCHANGED <<pool, words, turn, sorted_words, pred_remain_words, shown, printed,
                   error, answer, truthful, n_pools, n_ranked, fvars, rvars>>

\* words = get_poss_words(guess, colors, words)
FilterWords ==
    /\ pc = "filter"
    /\ ~get_poss_words_raises(guess, colors)
    /\ words' = get_poss_words(guess, colors, words)
    /\ truthful' = (truthful /\ colors = GameColors(guess, answer))
    /\ pc' = "check"
    /\ UNCHANGED <<pool, turn, sorted_words, pred_remain_words, shown, guess, colors,
                   printed, error, answer, n_pools, n_observed, n_ranked, fvars, rvars>>

\* get_poss_words raises IndexError; nothing catches it.
FilterRaises ==
    /\ pc = "filter"
    /\ get_poss_words_raises(guess, colors)
    /\ error' = "IndexError"
    /\ pc' = "error"
    /\ UNCHANGED <<pool, words, turn, sorted_words, pred_remain_words, shown, guess,
                   colors, printed, answer, truthful, n_pools, n_observed, n_ranked,
                   fvars, rvars>>

\* if (words.shape[0] == 1): print, break
FoundWord ==
    /\ pc = "check"
    /\ Len(words) = 1
    /\ printed' = <<"is the word!", get_str(words[1])>>
    /\ pc' = "close"
    /\ UNCHANGED <<pool, words, turn, sorted_words, pred_remain_words, shown, guess,
                   colors, error, answer, truthful, n_pools, n_observed, n_ranked,
                   fvars, rvars>>

\* NoWordsMatch without the break: the loop goes on to the next turn.
NoWordsMatch_no_break ==
    /\ pc = "check"
    /\ Len(words) = 0
    /\ printed' = <<"No words match that description!", <<>>>>
    /\ turn + 1 < NUM_TURNS
    /\ turn' = turn + 1
    /\ pc' = "rank"
    /\ UNCHANGED <<pool, words, sorted_words, pred_remain_words, shown, guess,
                   colors, error, answer, truthful, n_pools, n_observed, n_ranked,
                   fvars, rvars>>

\* elif (words.shape[0] == 0): print, break
NoWordsMatch ==
    /\ pc = "check"
    /\ Len(words) = 0
    /\ printed' = <<"No words match that description!", <<>>>>
    /\ pc' = "close"
    /\ UNCHANGED <<pool, words, turn, sorted_words, pred_remain_words, shown, guess,
                   colors, error, answer, truthful, n_pools, n_observed, n_ranked,
                   fvars, rvars>>

\* elif (turn == 5): print; then the next iteration of range(6), if any.
EndTurn ==
    /\ pc = "check"
    /\ Len(words) > 1
    /\ printed' = IF turn = LAST_TURN THEN <<"No more turns!", <<>>>> ELSE printed
    /\ IF turn + 1 < NUM_TURNS
       THEN /\ turn' = turn + 1
            /\ pc' = "rank"
       ELSE /\ turn' = turn
            /\ pc' = "close"
    /\ UNCHANGED <<pool, words, sorted_words, pred_remain_words, shown, guess, colors,
                   error, answer, truthful, n_pools, n_observed, n_ranked, fvars, rvars>>

\* pool.close()
ClosePool ==
    /\ pc = "close"
    /\ pool' = "closed"
    /\ pc' = "done"
    /\ UNCHANGED <<words, turn, sorted_words, pred_remain_words, shown, guess, colors,
                   printed, error, answer, truthful, n_pools, n_observed, n_ranked,
                   fvars, rvars>>

Next ==
    \/ CreatePool
    \/ GetAllValidWords
    \/ UseFirstWordStats
    \/ RankWords
    \/ RankWordsRaises
    \/ ShowWords
    \/ GetGuessColors
    \/ FilterWords
    \/ FilterRaises
    \/ FoundWord
    \/ NoWordsMatch
    \/ EndTurn
    \/ ClosePool

Spec == MInit /\ [][Next]_vars

\* ---- claims on the session
IsLetter(v) == v \in (65..90) \cup (97..122)

\* A guess of five letters with a colour for each.
WellFormedObservation(g, f) ==
    /\ Len(g) = WORD_LEN
    /\ Len(f) = WORD_LEN
    /\ \A i \in DOMAIN g : IsLetter(g[i])
    /\ \A i \in DOMAIN f : f[i] \in {G_UNICODE, Y_UNICODE, B_UNICODE}

\* C4: the candidate set is replaced by a filtered one only for a well-formed
\* observation; any other ends in an error.
C4_MalformedObservationRejected ==
    pc = "check" => WellFormedObservation(guess, colors)

\* C8: one pool is created, and the process ends, normally or by an error,
\* with the pool closed.
C8_PoolClosedOnEveryExit ==
    /\ n_pools <= 1
    /\ pc \in {"done", "error"} => (n_pools = 1 /\ pool = "closed")

\* C9: at most six observations; the loop goes on only while more than one
\* candidate is left; it ends with exactly one report, which is the unique word
\* for one candidate, no match for none, and turns exhausted only after the
\* sixth observation left more than one; nothing is ranked or read afterwards.
C9_TurnLoopOutcomes ==
    /\ n_observed <= NUM_TURNS
    /\ n_ranked <= turn
    /\ pc \in {"rank", "show", "input"} => n_observed = turn
    /\ pc \in {"filter", "check"} => n_observed = turn + 1
    /\ (pc \in {"rank", "show", "input", "filter"} /\ turn > 0) => Len(words) > 1
    /\ printed[1] # "" => pc \in {"close", "done"}
    /\ pc \in {"close", "done"} =>
          \/ /\ Len(words) = 1
             /\ printed = <<"is the word!", get_str(words[1])>>
          \/ /\ printed[1] = "No words match that description!"
             /\ Len(words) = 0
          \/ /\ printed[1] = "No more turns!"
             /\ Len(words) > 1
             /\ n_observed = NUM_TURNS

\* A session has ended after six observations with several candidates left.
C9_Witness ==
    /\ pc = "done"
    /\ printed[1] = "No more turns!"
    /\ n_observed = NUM_TURNS
    /\ n_ranked = NUM_TURNS - 1

\* C10: while every feedback typed is the game's colouring of the guess
\* against the answer, the answer stays a candidate, no-match is never
\* reported, and a unique word reported is the answer.
C10_AnswerNeverEliminated ==
    (truthful /\ pc \notin {"start", "read"}) =>
        /\ answer \in Range(words)
        /\ printed[1] # "No words match that description!"
        /\ printed[1] = "is the word!" => printed[2] = get_str(answer)

\* After a second truthful observation, whose guess has one letter marked both
\* present and absent, the filter has dropped a word and kept the answer.
C10_Witness ==
    /\ truthful
    /\ pc = "check"
    /\ n_observed >= 2
    /\ \E i, j \in DOMAIN colors :
          /\ colors[i] = Y_UNICODE
          /\ colors[j] = B_UNICODE
          /\ guess[i] = guess[j]
    /\ Len(words) < Len(sorted_words)
====
